---- MODULE Spec2Model ----
(***************************************************************************)
(* The zero-shot classification notebook                                   *)
(* (ZSL_for_substance_use_text_analysis.ipynb) as a state machine.         *)
(*                                                                         *)
(* The state is the kernel's global namespace plus the file most recently  *)
(* written under Outputs/.  Each code cell is an action; the two           *)
(* classification cells are split at the batches the pipeline iterator     *)
(* hands to the model, because a scoring failure can end the cell between  *)
(* two batches.                                                            *)
(*                                                                         *)
(* A score is a binary float; the model holds it as the integer number of  *)
(* ScoreUnit-ths (0.5 is 65536), so that score * 100 and its rounding are  *)
(* exact.  Percentages are integers in units of 0.01 (91.0 is 9100).       *)
(***************************************************************************)
EXTENDS Integers, Sequences, FiniteSets, TLC

VARIABLES
    defined,              \* names bound in the kernel's global namespace
    data_location,        \* global data_location
    dataframe,            \* global dataframe (the loaded CSV)
    input_dataset,        \* global input_dataset (KeyDataset over column text)
    candidate_labels,     \* global candidate_labels
    classifier_outputs,   \* global classifier_outputs (the lazy pipeline iterator)
    all_results,          \* global all_results
    output_file,          \* the file last written by results_df.to_csv
    correct_count,        \* global correct_count
    total_count,          \* global total_count
    predicted_labels,     \* global predicted_labels
    ground_truth_labels,  \* global ground_truth_labels
    accuracy,             \* global accuracy, as the fraction <<num, den>>
    pc,                   \* the cell whose loop is running, or "idle"
    reported              \* what the last cell reported: "ok", a printed
                          \* message, or the exception that ended it

vars == <<defined, data_location, dataframe, input_dataset, candidate_labels,
          classifier_outputs, all_results, output_file, correct_count,
          total_count, predicted_labels, ground_truth_labels, accuracy, pc,
          reported>>

dataVars == <<data_location, dataframe, input_dataset>>
evalVars == <<correct_count, total_count, predicted_labels,
              ground_truth_labels, accuracy>>

(***************************************************************************)
(* Bounds of the model.                                                    *)
(***************************************************************************)
NumTexts == 4
MaxRecords == 3
MaxBatch == 2

(***************************************************************************)
(* Values.                                                                 *)
(***************************************************************************)
\* A missing label or ground truth (pandas NaN in a column of strings).
NaN == "NaN"

\* A missing number (pandas NaN in a numeric column, or a missing text).
NaNNumber == -1

Texts == 1 .. NumTexts

\* The scores are the multiples of 1 / ScoreUnit between 0 and 1.
ScoreUnit == 131072

\* The batch size the two classification cells pass to the pipeline.
batch_size == 4

\* The batch sizes a run is checked with: the notebook's own and the small
\* ones that split the bounded datasets into several batches.
BatchSizes == (1 .. MaxBatch) \cup {batch_size}

Cell4Labels == <<"pro-legalisation", "anti-legalisation">>
PlaygroundLabels == <<"supports minimum unit pricing",
                      "does not support minimum unit pricing">>
ByoLabels == <<"pro-legalisation", "anti-legalisation">>

SampleUrl == "https://raw.githubusercontent.com/ltu-capr/zsl-text-tutorial/master/Data/cannabis_legalisation.csv"

Range(s) == {s[i] : i \in 1 .. Len(s)}

Min(a, b) == IF a <= b THEN a ELSE b

(***************************************************************************)
(* The Label Scorer: classifier = pipeline('zero-shot-classification').    *)
(* The model behind it is not part of the notebook.  It is taken as the    *)
(* environment's oracle: each text has one score for each label, whatever  *)
(* batch it is scored in.  Whether the real model's scores vary with the   *)
(* composition of a batch is therefore not something this module can       *)
(* decide; it checks what the notebook does with the scores it is given.   *)
(* The texts are chosen so that the rows cover                             *)
(* a clear first-label win (0.91), a clear second-label win whose          *)
(* percentages lie exactly halfway between two hundredths (3/32 is 9.375,  *)
(* 29/32 is 90.625), two raw scores that differ but round to the same      *)
(* percentage, and two equal raw scores.                                   *)
(***************************************************************************)
FirstLabelScore(text) ==
    CASE text % 4 = 1 -> 119276
      [] text % 4 = 2 -> 12288
      [] text % 4 = 3 -> 65535
      [] OTHER        -> 65536

Score(text, labels, label) ==
    IF label = labels[1] THEN FirstLabelScore(text)
    ELSE IF Len(labels) = 2 THEN ScoreUnit - FirstLabelScore(text)
    ELSE 0

\* The orders in which n items can be returned.
Orders(n) == {p \in [1 .. n -> 1 .. n] : \A i, j \in 1 .. n : p[i] = p[j] => i = j}

\* One text's result as the pipeline returns it: the labels sorted by
\* descending score (labels of equal score in either order), with their
\* scores alongside.
ScorerOutputs(text, labels) ==
    LET n == Len(labels)
        s(i) == Score(text, labels, labels[i])
    IN  { [sequence |-> text,
           labels   |-> [i \in 1 .. n |-> labels[p[i]]],
           scores   |-> [i \in 1 .. n |-> s(p[i])]] :
          p \in {q \in Orders(n) : \A i, j \in 1 .. n : i < j => s(q[i]) >= s(q[j])} }

\* The results the pipeline can yield for one batch of texts, in order.
BatchOutputs(texts, labels) ==
    {rs \in [1 .. Len(texts) -> UNION {ScorerOutputs(texts[i], labels) : i \in 1 .. Len(texts)}] :
        \A i \in 1 .. Len(texts) : rs[i] \in ScorerOutputs(texts[i], labels)}

(***************************************************************************)
(* The input files.  A dataframe is the text column, the set of the other  *)
(* columns, and the hand_annotated column (empty when the file has none).  *)
(***************************************************************************)
\* The annotator's label of a text.
Annotation(text) == IF text % 2 = 1 THEN Cell4Labels[1] ELSE Cell4Labels[2]

\* n consecutive texts from start, wrapping around.
TextColumn(start, n) == [i \in 1 .. n |-> ((start + i - 2) % NumTexts) + 1]

\* gt is "none" (no hand_annotated column), "full" (every row annotated) or
\* "hole" (the middle row's annotation is missing).
MakeDataframe(start, n, gt) ==
    LET text == TextColumn(start, n)
    IN  [text           |-> text,
         columns        |-> IF gt = "none" THEN {"text"} ELSE {"text", "hand_annotated"},
         hand_annotated |-> IF gt = "none" THEN <<>>
                            ELSE [i \in 1 .. n |->
                                    IF gt = "hole" /\ i = (n + 1) \div 2
                                    THEN NaN ELSE Annotation(text[i])]]

\* The datasets a run of the example scenario is checked on.
Dataframes ==
    {MakeDataframe(start, n, gt) :
        start \in Texts, n \in 0 .. MaxRecords, gt \in {"none", "full", "hole"}}

\* The files the notebook can reach: the sample behind the URL of Cell 2
\* and the user's own files, one with annotations (one of them missing) and
\* one with a text column only and no rows.  Any other name is not a file.
Files ==
    [f \in {SampleUrl, "labelled.csv", "unlabelled.csv"} |->
        CASE f = SampleUrl        -> MakeDataframe(1, MaxRecords, "full")
          [] f = "labelled.csv"   -> MakeDataframe(2, MaxRecords - 1, "hole")
          [] OTHER                -> MakeDataframe(1, 0, "none")]

\* os.path.isfile(data_location), for the names a user types or uploads.
isfile(name) == name \in DOMAIN Files /\ name # SampleUrl

\* What a user can enter in the file-selection cell; 'missing.csv' stands
\* for every entry that is not a file ('' of a cancelled upload included).
UserEntries == {"labelled.csv", "unlabelled.csv", "missing.csv"}

NoDataframe == [text |-> <<>>, columns |-> {}, hand_annotated |-> <<>>]
NoIterator == [texts |-> <<>>, labels |-> <<>>, batch_size |-> 0, pos |-> 0]
NoFile == [file_name |-> "", columns |-> <<>>, rows |-> <<>>]

(***************************************************************************)
(* The kernel after Cells 0, 1 and 3: nothing loaded, nothing classified.  *)
(***************************************************************************)
Init ==
    /\ defined = {}
    /\ data_location = ""
    /\ dataframe = NoDataframe
    /\ input_dataset = <<>>
    /\ candidate_labels = <<>>
    /\ classifier_outputs = NoIterator
    /\ all_results = <<>>
    /\ output_file = NoFile
    /\ correct_count = 0
    /\ total_count = 0
    /\ predicted_labels = <<>>
    /\ ground_truth_labels = <<>>
    /\ accuracy = <<0, 1>>
    /\ pc = "idle"
    /\ reported = "ok"

(***************************************************************************)
(* Cell 2: load the sample dataset from its URL.                           *)
(***************************************************************************)
LoadDataframe(df) ==
    /\ dataframe' = df
    /\ input_dataset' = df.text
    /\ defined' = defined \cup {"data_location", "dataframe", "input_dataset"}

Cell2 ==
    /\ pc = "idle"
    /\ data_location' = SampleUrl
    /\ LoadDataframe(Files[SampleUrl])
    /\ reported' = "ok"
    /\ UNCHANGED <<candidate_labels, classifier_outputs, all_results,
                   output_file, evalVars, pc>>

\* pd.read_csv cannot fetch the URL: the assignment of data_location stands,
\* the rest of the cell does not run.
Cell2Unavailable ==
    /\ pc = "idle"
    /\ data_location' = SampleUrl
    /\ defined' = defined \cup {"data_location"}
    /\ reported' = "URLError"
    /\ UNCHANGED <<dataframe, input_dataset, candidate_labels,
                   classifier_outputs, all_results, output_file, evalVars, pc>>

(***************************************************************************)
(* Cell 4 and the classification cell of "Bring your own CSV": start the   *)
(* pipeline over input_dataset and collect what it yields.                 *)
(***************************************************************************)
\* classifier(input_dataset, candidate_labels, batch_size=...): a lazy
\* iterator over the dataset, nothing scored yet.
classifier(dataset, labels, size) ==
    [texts |-> dataset, labels |-> labels, batch_size |-> size, pos |-> 0]

\* The pipeline turns every record into one item per candidate label, the
\* items of record r being numbered (r - 1) * Len(labels) + 1 .. r * Len(labels);
\* pos is the number of items the model has been run on.
NumItems(it) == Len(it.texts) * Len(it.labels)

\* The items of the next forward pass: at most batch_size consecutive items.
NextBatch(it) ==
    [k \in 1 .. Min(it.batch_size, NumItems(it) - it.pos) |-> it.pos + k]

\* The texts of the records a forward pass completes, in input order: those
\* whose last item is in the batch.  Only a completed record is yielded.
YieldedTexts(it, batch) ==
    LET last(r) == r * Len(it.labels) \in Range(batch)
        records == SelectSeq([r \in 1 .. Len(it.texts) |-> r], last)
    IN  [i \in 1 .. Len(records) |-> it.texts[records[i]]]

\* The body of the loop over classifier_outputs, for one yielded result.
MutLoopBody(results, result) == <<result>> \o results

LoopBody(results, result) == Append(results, result)

\* The loop body applied to the results of one batch, in the order yielded.
RECURSIVE Collect(_, _)
Collect(results, yielded) ==
    IF yielded = <<>> THEN results
    ELSE Collect(LoopBody(results, Head(yielded)), Tail(yielded))

StartClassification(cell, labels, size) ==
    /\ pc = "idle"
    /\ "input_dataset" \in defined
    /\ classifier_outputs' = classifier(input_dataset, labels, size)
    /\ candidate_labels' = labels
    /\ all_results' = <<>>
    /\ pc' = IF Len(input_dataset) = 0 THEN "idle" ELSE cell
    /\ defined' = defined \cup {"candidate_labels", "classifier_outputs", "all_results"}
    /\ reported' = "ok"
    /\ UNCHANGED <<dataVars, output_file, evalVars>>

\* The cell is run before any dataset is loaded: candidate_labels is
\* assigned, then input_dataset is not defined.
ClassificationNameError(labels) ==
    /\ pc = "idle"
    /\ "input_dataset" \notin defined
    /\ candidate_labels' = labels
    /\ defined' = defined \cup {"candidate_labels"}
    /\ reported' = "NameError"
    /\ UNCHANGED <<dataVars, classifier_outputs, all_results, output_file,
                   evalVars, pc>>

Cell4Start == StartClassification("cell4", Cell4Labels, batch_size)

\* Cell 4 with its batch_size argument set to any of the sizes checked.
Cell4StartBatched ==
    \E size \in BatchSizes : StartClassification("cell4", Cell4Labels, size)

Cell4NameError == ClassificationNameError(Cell4Labels)

ByoStart == StartClassification("byo", ByoLabels, batch_size)

ByoNameError == ClassificationNameError(ByoLabels)

\* The model is run on the next batch of items and the loop collects the
\* results of the records this completes; after the last batch the iterator
\* is exhausted and the cell ends.
ClassifyBatch ==
    /\ pc \in {"cell4", "byo"}
    /\ LET it    == classifier_outputs
           batch == NextBatch(it)
           pos   == it.pos + Len(batch)
       IN  /\ \E yielded \in BatchOutputs(YieldedTexts(it, batch), it.labels) :
                 all_results' = Collect(all_results, yielded)
           /\ classifier_outputs' = [it EXCEPT !.pos = pos]
           /\ pc' = IF pos = NumItems(it) THEN "idle" ELSE pc
    /\ UNCHANGED <<defined, dataVars, candidate_labels, output_file, evalVars,
                   reported>>

\* The model cannot score the next batch: the exception leaves the loop
\* and ends the cell, the iterator staying where it failed.
MutScoringUnavailable ==
    /\ pc \in {"cell4", "byo"}
    /\ LET it  == classifier_outputs
           pos == it.pos + Len(NextBatch(it))
       IN  /\ classifier_outputs' = [it EXCEPT !.pos = pos]
           /\ pc' = IF pos = NumItems(it) THEN "idle" ELSE pc
    /\ reported' = "ScoringUnavailable"
    /\ UNCHANGED <<defined, dataVars, candidate_labels, all_results,
                   output_file, evalVars>>

ScoringUnavailable ==
    /\ pc \in {"cell4", "byo"}
    /\ pc' = "idle"
    /\ reported' = "ScoringUnavailable"
    /\ UNCHANGED <<defined, dataVars, candidate_labels, classifier_outputs,
                   all_results, output_file, evalVars>>

(***************************************************************************)
(* Cell 5: save_model_predictions.                                         *)
(***************************************************************************)
\* round(score * 100, 2): score * 100 is exact for these scores, and round
\* gives the nearest hundredth, an exact half going to the even neighbour.
MutPercentage(score) == (score * 10000) \div ScoreUnit

Percentage(score) ==
    LET q == (score * 10000) \div ScoreUnit
        r == (score * 10000) % ScoreUnit
    IN  IF 2 * r > ScoreUnit \/ (2 * r = ScoreUnit /\ q % 2 = 1) THEN q + 1 ELSE q

scores_as_percentages(result) ==
    [i \in 1 .. Len(result.scores) |-> Percentage(result.scores[i])]

\* dict(zip(labels, scores_as_percentages))[column], NaN for a column the
\* result has no score for.  A later pair overwrites an earlier one.
MutRowValue(result, labels, column) ==
    LET at == {j \in 1 .. Len(labels) : labels[j] = column}
    IN  IF at = {} \/ (CHOOSE j \in at : TRUE) > Len(result.scores) THEN NaNNumber
        ELSE scores_as_percentages(result)[CHOOSE j \in at : TRUE]

RowValue(result, labels, column) ==
    LET at == {i \in 1 .. Len(result.labels) : result.labels[i] = column}
    IN  IF at = {} THEN NaNNumber
        ELSE scores_as_percentages(result)[CHOOSE i \in at : \A k \in at : k <= i]

\* results_df[candidate_labels].idxmax(axis=1) for one row: the first
\* column holding the row's maximum; NaN when every cell is NaN.
Mutidxmax(cells, labels) ==
    IF \A j \in 1 .. Len(cells) : cells[j] = NaNNumber THEN NaN
    ELSE labels[CHOOSE j \in 1 .. Len(cells) :
                  /\ \A k \in 1 .. Len(cells) : cells[k] <= cells[j]
                  /\ \A k \in 1 .. Len(cells) : k > j => cells[k] < cells[j]]

idxmax(cells, labels) ==
    IF \A j \in 1 .. Len(cells) : cells[j] = NaNNumber THEN NaN
    ELSE labels[CHOOSE j \in 1 .. Len(cells) :
                  /\ \A k \in 1 .. Len(cells) : cells[k] <= cells[j]
                  /\ \A k \in 1 .. Len(cells) : k < j => cells[k] < cells[j]]

\* One row of results_df before the ground truth is appended.
ResultRow(result, labels) ==
    LET cells == [j \in 1 .. Len(labels) |-> RowValue(result, labels, labels[j])]
    IN  [text            |-> result.sequence,
         cells           |-> cells,
         predicted_label |-> idxmax(cells, labels),
         hand_annotated  |-> NaN]

\* A row that exists only because a column was assigned to an empty frame.
EmptyRow(labels) ==
    [text            |-> NaNNumber,
     cells           |-> [j \in 1 .. Len(labels) |-> NaNNumber],
     predicted_label |-> NaN,
     hand_annotated  |-> NaN]

\* results_df['hand_annotated'] = dataframe['hand_annotated']: the column is
\* aligned on the row index; an empty results_df takes the index of the
\* assigned column.
AppendGroundTruth(rows, df, labels) ==
    LET gt == df.hand_annotated
        n  == IF Len(rows) = 0 THEN Len(gt) ELSE Len(rows)
    IN  [i \in 1 .. n |->
            [(IF Len(rows) = 0 THEN EmptyRow(labels) ELSE rows[i])
                EXCEPT !.hand_annotated = IF i <= Len(gt) THEN gt[i] ELSE NaN]]

\* The file save_model_predictions writes.
results_df(file_name, df, results, labels) ==
    LET rows == [i \in 1 .. Len(results) |-> ResultRow(results[i], labels)]
        gt   == "hand_annotated" \in df.columns
    IN  [file_name |-> file_name,
         columns   |-> <<"text">> \o labels \o <<"predicted_label">>
                       \o (IF gt THEN <<"hand_annotated">> ELSE <<>>),
         rows      |-> IF gt THEN AppendGroundTruth(rows, df, labels) ELSE rows]

\* idxmax over a row whose cells are all NaN warns and yields NaN, or raises
\* ValueError, depending on the pandas installed.
SaveOutcomes(results, labels) ==
    IF \E i \in 1 .. Len(results) :
          \A j \in 1 .. Len(labels) : RowValue(results[i], labels, labels[j]) = NaNNumber
    THEN {"Output file saved", "ValueError"}
    ELSE {"Output file saved"}

save_model_predictions(file_name) ==
    /\ pc = "idle"
    /\ {"dataframe", "all_results", "candidate_labels"} \subseteq defined
    /\ \E outcome \in SaveOutcomes(all_results, candidate_labels) :
          /\ output_file' =
                IF outcome = "ValueError" THEN output_file
                ELSE results_df(file_name, dataframe, all_results, candidate_labels)
          /\ reported' = outcome
    /\ UNCHANGED <<dataVars, candidate_labels, classifier_outputs, all_results,
                   evalVars, pc>>

Cell5 ==
    /\ save_model_predictions("cannabis_legalisation_predictions.csv")
    /\ defined' = defined \cup {"save_model_predictions"}

\* The function is defined, then the call names a global that is not.
Cell5NameError ==
    /\ pc = "idle"
    /\ ~({"dataframe", "all_results", "candidate_labels"} \subseteq defined)
    /\ defined' = defined \cup {"save_model_predictions"}
    /\ reported' = "NameError"
    /\ UNCHANGED <<dataVars, candidate_labels, classifier_outputs, all_results,
                   output_file, evalVars, pc>>

(***************************************************************************)
(* Cell 6: accuracy against the hand-annotated labels.                     *)
(***************************************************************************)
\* zip(predicted_labels, ground_truth_labels) stops at the shorter list.
Pairs(predicted, truth) == 1 .. Min(Len(predicted), Len(truth))

MutCorrect(predicted, truth) ==
    Cardinality({i \in Pairs(predicted, truth) \ {1} : predicted[i] = truth[i]})

Correct(predicted, truth) ==
    Cardinality({i \in Pairs(predicted, truth) : predicted[i] = truth[i]})

Cell6 ==
    /\ pc = "idle"
    /\ "all_results" \in defined
    /\ LET predicted == [i \in 1 .. Len(all_results) |-> all_results[i].labels[1]]
           truth     == dataframe.hand_annotated
           total     == Cardinality(Pairs(predicted, truth))
       IN  /\ predicted_labels' = predicted
           /\ IF "hand_annotated" \notin dataframe.columns
              THEN /\ correct_count' = 0
                   /\ total_count' = 0
                   /\ UNCHANGED <<ground_truth_labels, accuracy>>
                   /\ defined' = defined \cup
                         {"correct_count", "total_count", "predicted_labels"}
                   /\ reported' = "KeyError"
              ELSE /\ ground_truth_labels' = truth
                   /\ total_count' = total
                   /\ correct_count' = Correct(predicted, truth)
                   /\ IF total = 0
                      THEN /\ UNCHANGED accuracy
                           /\ defined' = defined \cup
                                 {"correct_count", "total_count",
                                  "predicted_labels", "ground_truth_labels"}
                           /\ reported' = "ZeroDivisionError"
                      ELSE /\ accuracy' = <<Correct(predicted, truth), total>>
                           /\ defined' = defined \cup
                                 {"correct_count", "total_count", "predicted_labels",
                                  "ground_truth_labels", "accuracy"}
                           /\ reported' = "Accuracy"
    /\ UNCHANGED <<dataVars, candidate_labels, classifier_outputs, all_results,
                   output_file, pc>>

\* The counters are reset, then all_results is not defined.
Cell6NameError ==
    /\ pc = "idle"
    /\ "all_results" \notin defined
    /\ correct_count' = 0
    /\ total_count' = 0
    /\ defined' = defined \cup {"correct_count", "total_count"}
    /\ reported' = "NameError"
    /\ UNCHANGED <<dataVars, candidate_labels, classifier_outputs, all_results,
                   output_file, predicted_labels, ground_truth_labels, accuracy, pc>>

(***************************************************************************)
(* "Try your own analysis".                                                *)
(***************************************************************************)
\* Simple playground: new candidate_labels, one text scored and displayed.
Playground ==
    /\ pc = "idle"
    /\ candidate_labels' = PlaygroundLabels
    /\ defined' = defined \cup {"input_text", "candidate_labels"}
    /\ reported' = "ok"
    /\ UNCHANGED <<dataVars, classifier_outputs, all_results, output_file,
                   evalVars, pc>>

\* Bring your own CSV, first cell: the user names or uploads a file; a name
\* that is not a file is reported and kept.
SelectFile ==
    /\ pc = "idle"
    /\ \E name \in UserEntries :
          /\ data_location' = name
          /\ reported' = IF isfile(name) THEN "ok" ELSE "File not found"
    /\ defined' = defined \cup {"data_location"}
    /\ UNCHANGED <<dataframe, input_dataset, candidate_labels,
                   classifier_outputs, all_results, output_file, evalVars, pc>>

\* Bring your own CSV, second cell: dataframe = pd.read_csv(data_location).
ReadData ==
    /\ pc = "idle"
    /\ "data_location" \in defined
    /\ IF data_location \in DOMAIN Files
       THEN /\ LoadDataframe(Files[data_location])
            /\ reported' = "ok"
       ELSE /\ UNCHANGED <<dataframe, input_dataset, defined>>
            /\ reported' = "FileNotFoundError"
    /\ UNCHANGED <<data_location, candidate_labels, classifier_outputs,
                   all_results, output_file, evalVars, pc>>

\* The read cell run on the URL that Cell 2 left in data_location, when the
\* URL cannot be fetched.
ReadDataUnavailable ==
    /\ pc = "idle"
    /\ "data_location" \in defined
    /\ data_location = SampleUrl
    /\ reported' = "URLError"
    /\ UNCHANGED <<defined, dataVars, candidate_labels, classifier_outputs,
                   all_results, output_file, evalVars, pc>>

ReadDataNameError ==
    /\ pc = "idle"
    /\ "data_location" \notin defined
    /\ reported' = "NameError"
    /\ UNCHANGED <<defined, dataVars, candidate_labels, classifier_outputs,
                   all_results, output_file, evalVars, pc>>

\* Bring your own CSV, last cell: the function of Cell 5 on the globals.
ByoSave ==
    /\ "save_model_predictions" \in defined
    /\ save_model_predictions("predictions.csv")
    /\ UNCHANGED defined

ByoSaveNameError ==
    /\ pc = "idle"
    /\ ~({"save_model_predictions", "dataframe", "all_results", "candidate_labels"}
            \subseteq defined)
    /\ reported' = "NameError"
    /\ UNCHANGED <<defined, dataVars, candidate_labels, classifier_outputs,
                   all_results, output_file, evalVars, pc>>

(***************************************************************************)
(* Spec: the notebook's cells, run in any order on the files above.         *)
(***************************************************************************)
Next ==
    \/ Cell2
    \/ Cell2Unavailable
    \/ Cell4Start
    \/ Cell4NameError
    \/ ClassifyBatch
    \/ ScoringUnavailable
    \/ Cell5
    \/ Cell5NameError
    \/ Cell6
    \/ Cell6NameError
    \/ Playground
    \/ SelectFile
    \/ ReadData
    \/ ReadDataUnavailable
    \/ ReadDataNameError
    \/ ByoStart
    \/ ByoNameError
    \/ ByoSave
    \/ ByoSaveNameError

Spec == Init /\ [][Next]_vars

(***************************************************************************)
(* SpecRun: the example scenario from Cell 4 on, with Cell 2 having loaded *)
(* any of the datasets and Cell 4 run with any of the batch sizes.         *)
(***************************************************************************)
InitRun ==
    /\ \E df \in Dataframes :
          /\ dataframe = df
          /\ input_dataset = df.text
    /\ defined = {"data_location", "dataframe", "input_dataset"}
    /\ data_location = SampleUrl
    /\ candidate_labels = <<>>
    /\ classifier_outputs = NoIterator
    /\ all_results = <<>>
    /\ output_file = NoFile
    /\ correct_count = 0
    /\ total_count = 0
    /\ predicted_labels = <<>>
    /\ ground_truth_labels = <<>>
    /\ accuracy = <<0, 1>>
    /\ pc = "idle"
    /\ reported = "ok"

NextRun ==
    \/ Cell4StartBatched
    \/ ClassifyBatch
    \/ ScoringUnavailable
    \/ Cell5
    \/ Cell5NameError
    \/ Cell6
    \/ Cell6NameError

SpecRun == InitRun /\ [][NextRun]_vars

(***************************************************************************)
(* Properties of the classification loop.                                  *)
(***************************************************************************)
\* A classification cell has just run to its end without a scoring failure.
RunCompleted ==
    /\ pc = "idle"
    /\ reported = "ok"
    /\ "all_results" \in defined

\* C1: a run that completes without a scoring failure has collected exactly
\* one result per input record, the i-th result being the result for the
\* i-th record, whatever the batch size.
C1_OneResultPerRecordInOrder ==
    RunCompleted =>
        /\ Len(all_results) = Len(input_dataset)
        /\ \A i \in 1 .. Len(all_results) :
              all_results[i] \in ScorerOutputs(input_dataset[i], candidate_labels)

C1_Witness ==
    /\ RunCompleted
    /\ Len(all_results) = MaxRecords
    /\ classifier_outputs.batch_size = MaxBatch
    /\ \E i, j \in 1 .. Len(all_results) :
          all_results[i].sequence # all_results[j].sequence

\* C5: a scoring failure ends the cell with the exception; what has been
\* collected is the results of the records before the failing batch, in
\* input order and untouched by the failure; nothing is collected for the
\* failing batch or after it; and the collected prefix can be saved, row i of
\* the file being the row of the i-th collected result.
C5_FailureKeepsThePrefix ==
    [][ /\ reported' = "ScoringUnavailable" =>
              /\ pc' = "idle"
              /\ all_results' = all_results
              /\ Len(all_results') =
                    classifier_outputs'.pos \div Len(classifier_outputs'.labels)
              /\ classifier_outputs'.pos < NumItems(classifier_outputs')
              /\ Len(all_results') < Len(input_dataset')
              /\ \A i \in 1 .. Len(all_results') :
                    all_results'[i] \in ScorerOutputs(input_dataset'[i], candidate_labels')
        /\ (reported = "ScoringUnavailable" /\ pc' # "idle") => all_results' = <<>>
        /\ (reported = "ScoringUnavailable" /\ reported' = "Output file saved") =>
              /\ Len(output_file'.rows) >= Len(all_results)
              /\ \A i \in 1 .. Len(all_results) :
                    /\ output_file'.rows[i].text = input_dataset[i]
                    /\ output_file'.rows[i].predicted_label \in Range(candidate_labels)
      ]_vars

C5_Witness ==
    /\ reported = "Output file saved"
    /\ pc = "idle"
    /\ classifier_outputs.batch_size = batch_size
    /\ classifier_outputs.pos < NumItems(classifier_outputs)
    /\ Len(all_results) = batch_size \div Len(candidate_labels)
    /\ Len(output_file.rows) = Len(all_results)

(***************************************************************************)
(* Properties of the saved report.                                         *)
(***************************************************************************)
\* The label columns of a written file: those between text and
\* predicted_label.
LabelColumns(file) ==
    SubSeq(file.columns, 2,
           (CHOOSE k \in 1 .. Len(file.columns) : file.columns[k] = "predicted_label") - 1)

\* The rows of the written file that were built from a classification result.
ResultRows == {i \in 1 .. Len(output_file.rows) : output_file.rows[i].text # NaNNumber}

\* C2: in every written row, predicted_label is the candidate label with the
\* greatest rounded percentage, the earliest in declared order on a tie,
\* whatever order the scorer returned the labels in.
C2_PredictedLabelIsFirstMaximum ==
    output_file # NoFile =>
        \A i \in ResultRows :
            LET row    == output_file.rows[i]
                labels == LabelColumns(output_file)
                pct(j) == Percentage(Score(row.text, labels, labels[j]))
            IN  \E j \in 1 .. Len(labels) :
                    /\ row.predicted_label = labels[j]
                    /\ \A k \in 1 .. Len(labels) : pct(k) <= pct(j)
                    /\ \A k \in 1 .. j - 1 : pct(k) < pct(j)

C2_Witness ==
    /\ reported = "Output file saved"
    /\ \E i \in ResultRows :
          /\ output_file.rows[i].cells[1] = output_file.rows[i].cells[2]
          /\ all_results[i].labels # candidate_labels
          /\ all_results[i].scores[1] > all_results[i].scores[2]
          /\ output_file.rows[i].predicted_label = candidate_labels[1]

\* C3: the written file has the columns text, the candidate labels in
\* declared order, predicted_label and, when the input has it,
\* hand_annotated; the cell under label L is the score the scorer gave L,
\* as a percentage rounded to the nearest hundredth (the even one of two
\* equally near), between 0 and 100.
C3_ColumnsHoldRoundedScores ==
    output_file # NoFile =>
        /\ output_file.columns =
              <<"text">> \o candidate_labels \o <<"predicted_label">>
              \o (IF "hand_annotated" \in dataframe.columns
                  THEN <<"hand_annotated">> ELSE <<>>)
        /\ \A i \in ResultRows :
              LET row    == output_file.rows[i]
                  labels == LabelColumns(output_file)
              IN  /\ Len(row.cells) = Len(labels)
                  /\ \A j \in 1 .. Len(labels) :
                        LET score == Score(row.text, labels, labels[j])
                            error == 2 * (row.cells[j] * ScoreUnit - score * 10000)
                        IN  /\ row.cells[j] \in 0 .. 10000
                            /\ error \in -ScoreUnit .. ScoreUnit
                            /\ error \in {-ScoreUnit, ScoreUnit} => row.cells[j] % 2 = 0
                            /\ row.cells[j] = Percentage(score)

C3_Witness ==
    /\ reported = "Output file saved"
    /\ "hand_annotated" \in dataframe.columns
    /\ \E i \in ResultRows :
          /\ all_results[i].labels # candidate_labels
          /\ output_file.rows[i].cells[1] < output_file.rows[i].cells[2]
          /\ (all_results[i].scores[1] * 10000) % ScoreUnit = ScoreUnit \div 2

(***************************************************************************)
(* Properties of the accuracy cell.                                        *)
(***************************************************************************)
\* C6 as claimed: an accuracy number is produced only when every evaluated
\* record has a ground truth.
C6_AccuracyOnlyWithCompleteGroundTruth ==
    reported = "Accuracy" =>
        /\ "hand_annotated" \in dataframe.columns
        /\ \A i \in 1 .. total_count : ground_truth_labels[i] # NaN

\* The number of records of the run whose predicted label is their ground
\* truth, counted over the records that have both.
Matches ==
    Cardinality({i \in 1 .. Min(Len(all_results), Len(dataframe.hand_annotated)) :
                    all_results[i].labels[1] = dataframe.hand_annotated[i]})

\* C7 as claimed: whenever the evaluation runs it yields an accuracy, equal
\* to the number of matching records divided by the number of input records
\* and lying between 0 and 1, for every number of records and results.
C7_AccuracyOverAllRecords ==
    reported \in {"Accuracy", "ZeroDivisionError"} =>
        /\ reported = "Accuracy"
        /\ accuracy[1] * Len(input_dataset) = Matches * accuracy[2]
        /\ 0 <= accuracy[1]
        /\ accuracy[1] <= accuracy[2]

\* C7 as amended: when the evaluation yields an accuracy, it is the number
\* of matching records divided by the number of records that have both a
\* result and a ground truth (at least one), and lies between 0 and 1; when
\* no record has both, the division fails and no accuracy is yielded.
C7_AccuracyOverPairedRecords ==
    LET paired == Min(Len(all_results), Len(dataframe.hand_annotated))
    IN  /\ reported = "Accuracy" =>
              /\ paired >= 1
              /\ accuracy = <<Matches, paired>>
              /\ correct_count = Matches
              /\ total_count = paired
              /\ 0 <= accuracy[1]
              /\ accuracy[1] <= accuracy[2]
        /\ reported = "ZeroDivisionError" =>
              /\ paired = 0
              /\ total_count = 0
        /\ ("hand_annotated" \in dataframe.columns /\ paired = 0) =>
              reported # "Accuracy"

C7_Witness ==
    /\ reported = "Accuracy"
    /\ 0 < accuracy[1]
    /\ accuracy[1] < accuracy[2]
    /\ accuracy[2] < Len(input_dataset)

\* C8 as claimed: for every record, the label the accuracy cell compares
\* with the ground truth is the predicted_label written in the record's row.
C8_EvaluatedLabelIsWrittenLabel ==
    (reported = "Accuracy" /\ output_file # NoFile) =>
        \A i \in ResultRows :
            i <= Len(predicted_labels) =>
                predicted_labels[i] = output_file.rows[i].predicted_label

(***************************************************************************)
(* Properties of the notebook's cells run in any order.                    *)
(***************************************************************************)
\* C9 as claimed: the label columns of a saved report of a result list are
\* the candidate labels that were passed to the scorer for that list.
C9_ReportUsesTheScoredLabels ==
    (reported = "Output file saved" /\ all_results # <<>>) =>
        LabelColumns(output_file) = classifier_outputs.labels

\* C10 as claimed: while data_location names no readable file, the
\* classification cell of "Bring your own CSV" scores nothing and its
\* report is not written.
C10_NothingRunsWithoutInput ==
    data_location \notin DOMAIN Files =>
        /\ ~(pc = "byo" /\ all_results # <<>>)
        /\ ~(reported = "Output file saved" /\ output_file.file_name = "predictions.csv")

\* C11 as claimed: the ground truth paired with a result is that of the
\* record the result was scored from.  In a report just written with a
\* hand_annotated column, row i's text is the text of record i of the
\* loaded dataset and row i's hand_annotated is that record's; in an
\* accuracy just computed, the i-th pair's result was scored from record i
\* of the loaded dataset; also when the results are a prefix of the dataset
\* or the dataset was loaded after the results were collected.
C11_GroundTruthOfTheSameRecord ==
    /\ (reported = "Output file saved" /\ "hand_annotated" \in dataframe.columns) =>
          \A i \in ResultRows :
              /\ i <= Len(dataframe.text)
              /\ dataframe.text[i] = output_file.rows[i].text
              /\ output_file.rows[i].hand_annotated = dataframe.hand_annotated[i]
    /\ reported = "Accuracy" =>
          \A i \in 1 .. total_count :
              /\ all_results[i].sequence = dataframe.text[i]
              /\ ground_truth_labels[i] = dataframe.hand_annotated[i]

====
